---------------------------- MODULE Spec2Model ----------------------------
(***************************************************************************)
(* GuideProvider of react-guideflow (src/src/context/GuideContext.tsx) as  *)
(* a state machine.                                                        *)
(*                                                                         *)
(* A state of the model is a settled provider: the last render has been    *)
(* committed and its effects have run.  Every action is one whole event:   *)
(* the handler the application or the browser invokes, followed by the     *)
(* React commit it causes (re-render, effects in declaration order, and    *)
(* the second render the effects' own state updates cause).                *)
(*                                                                         *)
(* Handlers are operators on a "world" record w.  Its fields are           *)
(*   - the React state cells (isActive, currentStep, isDismissed, steps,   *)
(*     highlightedElement): what the next render will see;                 *)
(*   - the values the useCallback closures of the last render captured     *)
(*     (cl_isDismissed for startGuide, cl_isActive / cl_currentStep for    *)
(*     updateHighlight), and those captured once at mount by the           *)
(*     callbacks with an empty dependency list (mountSteps for addStep,    *)
(*     mountKey / mountStorageType for restartGuide);                      *)
(*   - the refs (stepsRef, optionsRef), the props, the two Web Storage     *)
(*     areas, the set of selectors that match no element, and the          *)
(*     callbacks fired during the event; newOptions says that the options  *)
(*     prop is another object than the one the last render received,       *)
(*     newProps that persistenceKey or storageType differs from the last   *)
(*     render's.                                                           *)
(*   - what the main effect has registered with the browser: the number of *)
(*     connected MutationObservers, of handleResize pairs on resize/scroll *)
(*     and of handleKeyDown listeners on the window, observerRef, and      *)
(*     whether the handleKeyDown of the last run of the effect was added.  *)
(*   - the page layout: the rectangle getBoundingClientRect returns for    *)
(*     the element of each selector, the placement of the step of each     *)
(*     selector, and the viewport (window.innerWidth / innerHeight).       *)
(* The layout is fixed during a behaviour, so the DOMRect in               *)
(* highlightedElement is represented by the selector of the element it was *)
(* measured on.  Rectangles have even widths and heights, so that the      *)
(* halves calculateTooltipPosition takes are exact.                        *)
(*                                                                         *)
(* React is taken as in a production build: a state setter called with a   *)
(* value equal to the current one causes no render, and an updater         *)
(* function (setCurrentStep(prev => ...) in nextStep / prevStep,           *)
(* setSteps(prev => ...) in addStep / removeStep) runs once, on the        *)
(* latest value of its cell, reading the refs as they are at the call.     *)
(* An event handler here calls one operation through the context value of  *)
(* the last committed render.                                              *)
(***************************************************************************)
EXTENDS Integers, Sequences, FiniteSets, TLC

\* ------------------------------------------------------------------ bounds
MaxSteps == 3
MaxMissing == 1
MaxLeaked == 1

Selectors == {"a", "b"}
Keys == {"k1", "k2"}
StorageTypes == {"localStorage", "sessionStorage", "memory"}

\* the step lists the application passes as options.steps (no duplicates);
\* the empty list is reached from them by clearSteps and removeStep
InitialStepLists == {<<"a">>, <<"a", "b">>}

\* the persistenceKey the provider is mounted with
DefaultKey == "k1"

\* getItem's null, and a null highlightedElement
Null == "null"

\* the callback sets (onStart, onComplete, ...) the parent passes in options
CallbackSets == {"callbacks1", "callbacks2"}
DefaultCallbacks == "callbacks1"

\* KeyboardEvent.key values; "Enter" stands for every key without a case
KeyboardKeys == {"ArrowRight", " ", "ArrowLeft", "Escape", "Enter"}

\* calculateTooltipPosition's constants
margin == 16
tooltipSize == [width |-> 300, height |-> 150]

Placements == {"top", "bottom", "left", "right", "auto"}

\* the layouts the placement calculator is exercised on
Rect(left, top, width, height) ==
    [left |-> left, top |-> top, width |-> width, height |-> height]

Rects ==
    {Rect(l, tp, sz[1], sz[2]) :
        l \in {0, 100, 600}, tp \in {50, 300, 500}, sz \in {<<100, 20>>, <<400, 300>>}}

Viewports ==
    {[width |-> 800, height |-> 600], [width |-> 320, height |-> 240],
     [width |-> 800, height |-> 160]}

\* the page of the other specifications
DefaultRect == Rect(100, 50, 100, 20)
DefaultViewport == [width |-> 800, height |-> 600]
DefaultPlacements == [s \in Selectors |-> IF s = "a" THEN "bottom" ELSE "auto"]

VARIABLES
    isActive,            \* useState(false)
    currentStep,         \* useState(0)
    highlightedElement,  \* useState<DOMRect | null>(null)
    tooltipPosition,     \* useState({ x: 0, y: 0 })
    isDismissed,         \* useState(false)
    steps,               \* useState(options.steps)
    stepsRef,            \* useRef(steps)
    optionsRef,          \* useRef(options)
    options,             \* prop: [steps, allowKeyboardNavigation, callbacks]
    persistenceKey,      \* prop
    storageType,         \* prop
    mountSteps,          \* `steps` as captured by addStep (deps [])
    mountKey,            \* persistenceKey as captured by restartGuide (deps [])
    mountStorageType,    \* storageType behind the setStorageValue restartGuide captured
    localStorage,        \* window.localStorage: key -> "true" | "false" | Null
    sessionStorage,      \* window.sessionStorage
    storageFails,        \* getItem / setItem throw (storage disabled, quota exceeded)
    missing,             \* selectors document.querySelector finds no element for
    rects,               \* selector -> element.getBoundingClientRect()
    placements,          \* selector -> placement of the step with that selector
    viewport,            \* window.innerWidth, window.innerHeight
    observers,           \* connected MutationObservers
    observerRef,         \* observerRef.current is an observer (TRUE) or null (FALSE)
    resizeListeners,     \* handleResize closures registered for resize and scroll
    keydownListeners,    \* handleKeyDown closures registered for keydown
    keydownAttached,     \* the handleKeyDown of the effect's last run was registered
    op,                  \* the event that led to this state: [name, args]
    fired,               \* the option callbacks that event invoked, in order
    firedFrom,           \* the options objects (their callbacks) these were taken from
    dismissCalled        \* dontShowAnymore ran in this instance, no restart/cancel since

vars == <<isActive, currentStep, highlightedElement, tooltipPosition, isDismissed,
          steps, stepsRef, rects, placements, viewport,
          optionsRef, options, persistenceKey, storageType, mountSteps, mountKey,
          mountStorageType, localStorage, sessionStorage, storageFails, missing, observers,
          observerRef, resizeListeners, keydownListeners, keydownAttached, op,
          fired, firedFrom, dismissCalled>>

\* ------------------------------------------------------------------ helpers
Callback(name, args) == [cb |-> name, args |-> args]

Event(name, args) == [name |-> name, args |-> args]

\* optionsRef.current.onXxx?.(...)
Fire(w, name, args) ==
    [w EXCEPT !.fired = Append(@, Callback(name, args)),
              !.firedFrom = @ \cup {w.optionsRef.callbacks}]

RECURSIVE FilterOut(_, _)
FilterOut(list, selector) ==
    IF list = <<>> THEN <<>>
    ELSE IF Head(list) = selector THEN FilterOut(Tail(list), selector)
         ELSE <<Head(list)>> \o FilterOut(Tail(list), selector)

Contains(list, selector) == \E i \in 1..Len(list) : list[i] = selector

\* the settled provider as a world record; the closures of the last render
\* hold the values that render saw
World ==
    [isActive |-> isActive, currentStep |-> currentStep,
     highlightedElement |-> highlightedElement, tooltipPosition |-> tooltipPosition,
     isDismissed |-> isDismissed, rects |-> rects, placements |-> placements,
     viewport |-> viewport,
     steps |-> steps, stepsRef |-> stepsRef, optionsRef |-> optionsRef,
     options |-> options, persistenceKey |-> persistenceKey,
     storageType |-> storageType, mountSteps |-> mountSteps, mountKey |-> mountKey,
     mountStorageType |-> mountStorageType, localStorage |-> localStorage,
     sessionStorage |-> sessionStorage, storageFails |-> storageFails,
     missing |-> missing, observers |-> observers, observerRef |-> observerRef,
     resizeListeners |-> resizeListeners, keydownListeners |-> keydownListeners,
     keydownAttached |-> keydownAttached,
     cl_isDismissed |-> isDismissed, cl_isActive |-> isActive,
     cl_currentStep |-> currentStep, newOptions |-> FALSE, newProps |-> FALSE,
     fired |-> <<>>, firedFrom |-> {}]

\* ------------------------------------------------------------------ storage
\* mutant: a read that throws is taken for a stored "true"
getStorageValueFailsAsTrue(w, type, key) ==
    CASE type = "localStorage" ->
           IF w.storageFails THEN "true" ELSE w.localStorage[key]
      [] type = "sessionStorage" ->
           IF w.storageFails THEN "true" ELSE w.sessionStorage[key]
      [] OTHER -> Null

\* a getItem that throws is caught: console.warn, return null
getStorageValue(w, type, key) ==
    CASE type = "localStorage" ->
           IF w.storageFails THEN Null ELSE w.localStorage[key]
      [] type = "sessionStorage" ->
           IF w.storageFails THEN Null ELSE w.sessionStorage[key]
      [] OTHER -> Null

\* mutant: the sessionStorage branch is lost
setStorageValueLocalOnly(w, type, key, value) ==
    CASE type = "localStorage" ->
           IF w.storageFails THEN w ELSE [w EXCEPT !.localStorage[key] = value]
      [] OTHER -> w

\* a setItem that throws is caught: console.warn, nothing is stored
setStorageValue(w, type, key, value) ==
    CASE type = "localStorage" ->
           IF w.storageFails THEN w ELSE [w EXCEPT !.localStorage[key] = value]
      [] type = "sessionStorage" ->
           IF w.storageFails THEN w ELSE [w EXCEPT !.sessionStorage[key] = value]
      [] OTHER -> w

\* ------------------------------------------------------------------ operations
\* mutant: setCurrentStep(0) is lost
startGuideKeepsIndex(w) ==
    IF w.cl_isDismissed THEN w
    ELSE IF Len(w.stepsRef) = 0 THEN w
    ELSE Fire([w EXCEPT !.isActive = TRUE], "onStart", <<>>)

\* mutant: the isDismissed guard is lost
startGuideIgnoresDismissal(w) ==
    IF Len(w.stepsRef) = 0 THEN w
    ELSE Fire([w EXCEPT !.currentStep = 0, !.isActive = TRUE], "onStart", <<>>)

startGuide(w) ==
    IF w.cl_isDismissed THEN w
    ELSE IF Len(w.stepsRef) = 0 THEN w
    ELSE Fire([w EXCEPT !.currentStep = 0, !.isActive = TRUE], "onStart", <<>>)

\* mutant: setHighlightedElement(null) is lost
stopGuideKeepsHighlight(w) ==
    Fire([w EXCEPT !.isActive = FALSE, !.currentStep = 0], "onClose", <<>>)

stopGuide(w) ==
    Fire([w EXCEPT !.isActive = FALSE, !.currentStep = 0,
                   !.highlightedElement = Null], "onClose", <<>>)

clearSteps(w) ==
    Fire([w EXCEPT !.steps = <<>>, !.currentStep = 0, !.isActive = FALSE,
                   !.highlightedElement = Null], "onClose", <<>>)

\* mutant: onDismiss is invoked before stopGuide
dontShowAnymoreDismissFirst(w) ==
    LET a == [w EXCEPT !.isDismissed = TRUE]
        b == setStorageValue(a, w.storageType, w.persistenceKey, "true")
        c == Fire(b, "onDismiss", <<>>)
    IN Fire([c EXCEPT !.isActive = FALSE, !.currentStep = 0,
                      !.highlightedElement = Null], "onClose", <<>>)

dontShowAnymore(w) ==
    LET a == [w EXCEPT !.isDismissed = TRUE]
        b == setStorageValue(a, w.storageType, w.persistenceKey, "true")
        c == stopGuide(b)
    IN Fire(c, "onDismiss", <<>>)

cancelDontShowAnymore(w) ==
    LET a == [w EXCEPT !.isDismissed = FALSE]
        b == setStorageValue(a, w.storageType, w.persistenceKey, "false")
    IN [b EXCEPT !.currentStep = 0, !.isActive = TRUE]

restartGuide(w) ==
    LET a == [w EXCEPT !.isDismissed = FALSE]
        b == setStorageValue(a, w.mountStorageType, w.mountKey, "false")
    IN [b EXCEPT !.currentStep = 0, !.isActive = TRUE]

addStep(w, selector) ==
    IF Contains(w.mountSteps, selector) THEN w
    ELSE [w EXCEPT !.steps = Append(@, selector)]

\* mutant: removing a step also rewinds the tour to the first step
removeStepResetsIndex(w, selector) ==
    [w EXCEPT !.steps = FilterOut(@, selector), !.currentStep = 0]

removeStep(w, selector) == [w EXCEPT !.steps = FilterOut(@, selector)]

\* mutant: the last step is left through stopGuide
nextStepClosesAtEnd(w) ==
    IF w.currentStep < Len(w.stepsRef) - 1
    THEN Fire([w EXCEPT !.currentStep = @ + 1], "onStepChange", <<w.currentStep + 1>>)
    ELSE stopGuide(w)

\* mutant: the bound is length instead of length - 1
nextStepOffByOne(w) ==
    IF w.currentStep < Len(w.stepsRef)
    THEN Fire([w EXCEPT !.currentStep = @ + 1], "onStepChange", <<w.currentStep + 1>>)
    ELSE Fire([w EXCEPT !.isActive = FALSE], "onComplete", <<>>)

nextStep(w) ==
    IF w.currentStep < Len(w.stepsRef) - 1
    THEN Fire([w EXCEPT !.currentStep = @ + 1], "onStepChange", <<w.currentStep + 1>>)
    ELSE Fire([w EXCEPT !.isActive = FALSE], "onComplete", <<>>)

\* mutant: the guard is >= 0 instead of > 0
prevStepNoGuard(w) ==
    IF w.currentStep >= 0
    THEN Fire([w EXCEPT !.currentStep = @ - 1], "onStepChange", <<w.currentStep - 1>>)
    ELSE w

prevStep(w) ==
    IF w.currentStep > 0
    THEN Fire([w EXCEPT !.currentStep = @ - 1], "onStepChange", <<w.currentStep - 1>>)
    ELSE w

\* mutant: the upper bound is inclusive
goToStepInclusive(w, stepIndex) ==
    IF stepIndex >= 0 /\ stepIndex <= Len(w.stepsRef)
    THEN Fire([w EXCEPT !.currentStep = stepIndex], "onStepChange", <<stepIndex>>)
    ELSE w

\* mutant: a valid goToStep also activates the tour
goToStepActivates(w, stepIndex) ==
    IF stepIndex >= 0 /\ stepIndex < Len(w.stepsRef)
    THEN Fire([w EXCEPT !.currentStep = stepIndex, !.isActive = TRUE],
              "onStepChange", <<stepIndex>>)
    ELSE w

goToStep(w, stepIndex) ==
    IF stepIndex >= 0 /\ stepIndex < Len(w.stepsRef)
    THEN Fire([w EXCEPT !.currentStep = stepIndex], "onStepChange", <<stepIndex>>)
    ELSE w

\* mutant: 'left' and 'right' are anchored at the target's top
placementAnchorSideAtTop(elementRect, placement, vp) ==
    LET right == elementRect.left + elementRect.width
        bottom == elementRect.top + elementRect.height
        x == elementRect.left + elementRect.width \div 2 - tooltipSize.width \div 2
        y == bottom + margin
    IN CASE placement = "top" ->
              [x |-> x, y |-> elementRect.top - tooltipSize.height - margin]
         [] placement = "bottom" -> [x |-> x, y |-> bottom + margin]
         [] placement = "left" ->
              [x |-> elementRect.left - tooltipSize.width - margin, y |-> elementRect.top]
         [] placement = "right" -> [x |-> right + margin, y |-> elementRect.top]
         [] OTHER ->
              IF y + tooltipSize.height > vp.height
              THEN [x |-> x, y |-> elementRect.top - tooltipSize.height - margin]
              ELSE [x |-> x, y |-> y]

\* mutant: the default branch never flips above the target
placementAnchorNoFlip(elementRect, placement, vp) ==
    LET right == elementRect.left + elementRect.width
        bottom == elementRect.top + elementRect.height
        x == elementRect.left + elementRect.width \div 2 - tooltipSize.width \div 2
        y == bottom + margin
    IN CASE placement = "top" ->
              [x |-> x, y |-> elementRect.top - tooltipSize.height - margin]
         [] placement = "bottom" -> [x |-> x, y |-> bottom + margin]
         [] placement = "left" ->
              [x |-> elementRect.left - tooltipSize.width - margin,
               y |-> elementRect.top + elementRect.height \div 2 - tooltipSize.height \div 2]
         [] placement = "right" ->
              [x |-> right + margin,
               y |-> elementRect.top + elementRect.height \div 2 - tooltipSize.height \div 2]
         [] OTHER -> [x |-> x, y |-> y]

\* calculateTooltipPosition up to its switch: the anchor before clamping
placementAnchor(elementRect, placement, vp) ==
    LET right == elementRect.left + elementRect.width
        bottom == elementRect.top + elementRect.height
        x == elementRect.left + elementRect.width \div 2 - tooltipSize.width \div 2
        y == bottom + margin
    IN CASE placement = "top" ->
              [x |-> x, y |-> elementRect.top - tooltipSize.height - margin]
         [] placement = "bottom" -> [x |-> x, y |-> bottom + margin]
         [] placement = "left" ->
              [x |-> elementRect.left - tooltipSize.width - margin,
               y |-> elementRect.top + elementRect.height \div 2 - tooltipSize.height \div 2]
         [] placement = "right" ->
              [x |-> right + margin,
               y |-> elementRect.top + elementRect.height \div 2 - tooltipSize.height \div 2]
         [] OTHER ->
              IF y + tooltipSize.height > vp.height
              THEN [x |-> x, y |-> elementRect.top - tooltipSize.height - margin]
              ELSE [x |-> x, y |-> y]

\* mutant: the two lower clamps are lost
clampToViewportUpperOnly(p, vp) ==
    LET x2 == IF p.x + tooltipSize.width > vp.width - margin
              THEN vp.width - tooltipSize.width - margin ELSE p.x
        y2 == IF p.y + tooltipSize.height > vp.height - margin
              THEN vp.height - tooltipSize.height - margin ELSE p.y
    IN [x |-> x2, y |-> y2]

\* the four assignments that follow the switch, in their order
clampToViewport(p, vp) ==
    LET x1 == IF p.x < margin THEN margin ELSE p.x
        x2 == IF x1 + tooltipSize.width > vp.width - margin
              THEN vp.width - tooltipSize.width - margin ELSE x1
        y1 == IF p.y < margin THEN margin ELSE p.y
        y2 == IF y1 + tooltipSize.height > vp.height - margin
              THEN vp.height - tooltipSize.height - margin ELSE y1
    IN [x |-> x2, y |-> y2]

calculateTooltipPosition(elementRect, placement, vp) ==
    clampToViewport(placementAnchor(elementRect, placement, vp), vp)

updateHighlight(w) ==
    IF ~w.cl_isActive THEN w
    ELSE IF w.cl_currentStep + 1 > Len(w.stepsRef) THEN w
    ELSE LET selector == w.stepsRef[w.cl_currentStep + 1]
         IN IF selector \in w.missing
            THEN removeStep(w, selector)
            ELSE [w EXCEPT !.highlightedElement = selector,
                           !.tooltipPosition =
                               calculateTooltipPosition(w.rects[selector],
                                                        w.placements[selector],
                                                        w.viewport)]

handleKeyDown(w, key) ==
    IF ~w.optionsRef.allowKeyboardNavigation THEN w
    ELSE CASE key \in {"ArrowRight", " "} -> nextStep(w)
           [] key = "ArrowLeft" -> prevStep(w)
           [] key = "Escape" -> stopGuide(w)
           [] OTHER -> w

\* ------------------------------------------------------------------ React commit
\* The commit that follows an event.  Render: the closures are re-created
\* over the cells.  Then the effects whose dependencies changed run in
\* declaration order: the read of the persisted flag (after a change of
\* persistenceKey or storageType), the options sync (optionsRef,
\* setSteps(options.steps)),
\* the stepsRef sync, the main effect and the step-change effect (both depend
\* on isActive and, through updateHighlight, on currentStep).  The cleanup of
\* the main effect's previous run (there is one if that run saw isActive)
\* runs before any effect of the commit, so it reads optionsRef as the
\* previous commit left it.  State updates made by the effects cause a
\* second render, whose only effect is the stepsRef sync.
\* mutant: optionsRef.current = options is lost
OptionsSyncEffectKeepsRef(w) ==
    IF ~w.newOptions THEN w
    ELSE [w EXCEPT !.steps = w.options.steps, !.newOptions = FALSE]

OptionsSyncEffect(w) ==
    IF ~w.newOptions THEN w
    ELSE [w EXCEPT !.optionsRef = w.options, !.steps = w.options.steps,
                   !.newOptions = FALSE]

StepsRefSyncEffect(w, renderedSteps) == [w EXCEPT !.stepsRef = renderedSteps]

\* mutant: the cleanup does not disconnect the observer
MainEffectCleanupKeepsObserver(w, hasCleanup) ==
    IF ~hasCleanup THEN w
    ELSE LET b == [w EXCEPT !.observerRef = FALSE, !.resizeListeners = @ - 1]
         IN IF b.optionsRef.allowKeyboardNavigation /\ b.keydownAttached
            THEN [b EXCEPT !.keydownListeners = @ - 1, !.keydownAttached = FALSE]
            ELSE [b EXCEPT !.keydownAttached = FALSE]

\* the function the main effect returned; removeEventListener of a handler
\* that was not added does nothing
MainEffectCleanup(w, hasCleanup) ==
    IF ~hasCleanup THEN w
    ELSE LET a == IF w.observerRef
                  THEN [w EXCEPT !.observers = @ - 1, !.observerRef = FALSE]
                  ELSE w
             b == [a EXCEPT !.resizeListeners = @ - 1]
         IN IF b.optionsRef.allowKeyboardNavigation /\ b.keydownAttached
            THEN [b EXCEPT !.keydownListeners = @ - 1, !.keydownAttached = FALSE]
            ELSE [b EXCEPT !.keydownAttached = FALSE]

MainEffect(w, depsChanged) ==
    IF depsChanged /\ w.cl_isActive
    THEN LET a == updateHighlight(w)
             b == [a EXCEPT !.observers = @ + 1, !.observerRef = TRUE,
                            !.resizeListeners = @ + 1]
         IN IF b.optionsRef.allowKeyboardNavigation
            THEN [b EXCEPT !.keydownListeners = @ + 1, !.keydownAttached = TRUE]
            ELSE b
    ELSE w

StepChangeEffect(w, depsChanged) ==
    IF depsChanged /\ w.cl_isActive THEN updateHighlight(w) ELSE w

Render(w) ==
    [w EXCEPT !.cl_isDismissed = w.isDismissed, !.cl_isActive = w.isActive,
              !.cl_currentStep = w.currentStep]

\* the effect that reads the persisted flag (deps [getStorageValue, persistenceKey])
DismissedOnMountEffect(w) ==
    IF getStorageValue(w, w.storageType, w.persistenceKey) = "true"
    THEN [w EXCEPT !.isDismissed = TRUE]
    ELSE w

\* its re-run when getStorageValue (deps [storageType]) or persistenceKey changed
PersistenceEffect(w) ==
    IF ~w.newProps THEN w
    ELSE [DismissedOnMountEffect(w) EXCEPT !.newProps = FALSE]

Commit(w) ==
    LET depsChanged == w.isActive # w.cl_isActive \/ w.currentStep # w.cl_currentStep
        c  == MainEffectCleanup(w, depsChanged /\ w.cl_isActive)
        r  == Render(c)
        e1 == PersistenceEffect(r)
        e2 == OptionsSyncEffect(e1)
        e3 == StepsRefSyncEffect(e2, r.steps)
        e4 == MainEffect(e3, depsChanged)
        e5 == StepChangeEffect(e4, depsChanged)
        r2 == Render(e5)
    IN StepsRefSyncEffect(r2, r2.steps)

\* the first render of a new GuideProvider instance
FirstRender(opts, key, type, ls, ss, miss) ==
    [isActive |-> FALSE, currentStep |-> 0, highlightedElement |-> Null,
     tooltipPosition |-> [x |-> 0, y |-> 0], rects |-> rects,
     placements |-> placements, viewport |-> viewport,
     isDismissed |-> FALSE, steps |-> opts.steps, stepsRef |-> opts.steps,
     optionsRef |-> opts, options |-> opts, persistenceKey |-> key,
     storageType |-> type, mountSteps |-> opts.steps, mountKey |-> key,
     mountStorageType |-> type, localStorage |-> ls, sessionStorage |-> ss,
     storageFails |-> storageFails,
     missing |-> miss, observers |-> 0, observerRef |-> FALSE,
     resizeListeners |-> 0, keydownListeners |-> 0, keydownAttached |-> FALSE,
     cl_isDismissed |-> FALSE, cl_isActive |-> FALSE,
     cl_currentStep |-> 0, newOptions |-> FALSE, newProps |-> FALSE,
     fired |-> <<>>, firedFrom |-> {}]

\* Mounting: the effects of the children run before the provider's own; a
\* child whose mount effect calls startGuide (README, "Checking Dismissal
\* Status") therefore calls the startGuide of the first render.  In the
\* first commit the main and step-change effects see isActive = false.
Mounted(w, childStarts) ==
    LET c == IF childStarts THEN startGuide(w) ELSE w
    IN Commit(DismissedOnMountEffect(c))

\* ------------------------------------------------------------------ events
Apply(w, name, args) ==
    /\ isActive' = w.isActive
    /\ currentStep' = w.currentStep
    /\ highlightedElement' = w.highlightedElement
    /\ tooltipPosition' = w.tooltipPosition
    /\ rects' = w.rects
    /\ placements' = w.placements
    /\ viewport' = w.viewport
    /\ isDismissed' = w.isDismissed
    /\ steps' = w.steps
    /\ stepsRef' = w.stepsRef
    /\ optionsRef' = w.optionsRef
    /\ options' = w.options
    /\ persistenceKey' = w.persistenceKey
    /\ storageType' = w.storageType
    /\ mountSteps' = w.mountSteps
    /\ mountKey' = w.mountKey
    /\ mountStorageType' = w.mountStorageType
    /\ localStorage' = w.localStorage
    /\ sessionStorage' = w.sessionStorage
    /\ storageFails' = w.storageFails
    /\ missing' = w.missing
    /\ observers' = w.observers
    /\ observerRef' = w.observerRef
    /\ resizeListeners' = w.resizeListeners
    /\ keydownListeners' = w.keydownListeners
    /\ keydownAttached' = w.keydownAttached
    /\ fired' = w.fired
    /\ firedFrom' = w.firedFrom
    /\ op' = Event(name, args)

EmptyStorage == [k \in Keys |-> Null]

\* an options object; defaultGuideConfig sets allowKeyboardNavigation: true
\* (callbacks names the set of callback functions the object carries)
Options(lst, keyboard, callbacks) ==
    [steps |-> lst, allowKeyboardNavigation |-> keyboard, callbacks |-> callbacks]

\* a provider mounted on a page with the given layout and empty storage
InitOn(lst, type, rs, ps, vp) ==
    /\ rects = rs
    /\ placements = ps
    /\ viewport = vp
    /\ storageFails = FALSE
    /\ LET w == Mounted(FirstRender(Options(lst, TRUE, DefaultCallbacks), DefaultKey, type,
                                    EmptyStorage, EmptyStorage, {}), FALSE)
       IN /\ isActive = w.isActive
          /\ currentStep = w.currentStep
          /\ highlightedElement = w.highlightedElement
          /\ tooltipPosition = w.tooltipPosition
          /\ isDismissed = w.isDismissed
          /\ steps = w.steps
          /\ stepsRef = w.stepsRef
          /\ optionsRef = w.optionsRef
          /\ options = w.options
          /\ persistenceKey = w.persistenceKey
          /\ storageType = w.storageType
          /\ mountSteps = w.mountSteps
          /\ mountKey = w.mountKey
          /\ mountStorageType = w.mountStorageType
          /\ localStorage = w.localStorage
          /\ sessionStorage = w.sessionStorage
          /\ missing = w.missing
          /\ observers = w.observers
          /\ observerRef = w.observerRef
          /\ resizeListeners = w.resizeListeners
          /\ keydownListeners = w.keydownListeners
          /\ keydownAttached = w.keydownAttached
          /\ fired = <<>>
          /\ firedFrom = {}
          /\ op = Event("mount", <<>>)
          /\ dismissCalled = FALSE

Init ==
    \E lst \in InitialStepLists, type \in StorageTypes :
        InitOn(lst, type, [s \in Selectors |-> DefaultRect], DefaultPlacements,
               DefaultViewport)

StartGuide ==
    /\ Apply(Commit(startGuide(World)), "startGuide", <<>>)
    /\ UNCHANGED dismissCalled

StopGuide ==
    /\ Apply(Commit(stopGuide(World)), "stopGuide", <<>>)
    /\ UNCHANGED dismissCalled

ClearSteps ==
    /\ Apply(Commit(clearSteps(World)), "clearSteps", <<>>)
    /\ UNCHANGED dismissCalled

DontShowAnymore ==
    /\ Apply(Commit(dontShowAnymore(World)), "dontShowAnymore", <<>>)
    /\ dismissCalled' = TRUE

CancelDontShowAnymore ==
    /\ Apply(Commit(cancelDontShowAnymore(World)), "cancelDontShowAnymore", <<>>)
    /\ dismissCalled' = FALSE

RestartGuide ==
    /\ Apply(Commit(restartGuide(World)), "restartGuide", <<>>)
    /\ dismissCalled' = FALSE

AddStep ==
    \E selector \in Selectors :
        /\ Len(steps) < MaxSteps
        /\ Apply(Commit(addStep(World, selector)), "addStep", <<selector>>)
        /\ UNCHANGED dismissCalled

RemoveStep ==
    \E selector \in Selectors :
        /\ Apply(Commit(removeStep(World, selector)), "removeStep", <<selector>>)
        /\ UNCHANGED dismissCalled

NextStep ==
    /\ Apply(Commit(nextStep(World)), "nextStep", <<>>)
    /\ UNCHANGED dismissCalled

PrevStep ==
    /\ Apply(Commit(prevStep(World)), "prevStep", <<>>)
    /\ UNCHANGED dismissCalled

GoToStep ==
    \E stepIndex \in -1..MaxSteps :
        /\ Apply(Commit(goToStep(World, stepIndex)), "goToStep", <<stepIndex>>)
        /\ UNCHANGED dismissCalled

\* The page adds or removes the element of a selector.  The MutationObserver
\* (connected by the main effect while isActive) then calls updateHighlight.
DomChange ==
    \E selector \in Selectors :
        LET now == IF selector \in missing THEN missing \ {selector}
                   ELSE missing \cup {selector}
            w == [World EXCEPT !.missing = now]
        IN /\ Cardinality(now) <= MaxMissing
           /\ Apply(Commit(IF isActive THEN updateHighlight(w) ELSE w), "domChange", <<selector>>)
           /\ UNCHANGED dismissCalled

\* A resize or scroll event (handleResize, registered while isActive).
Resize ==
    /\ Apply(Commit(IF isActive THEN updateHighlight(World) ELSE World), "resize", <<>>)
    /\ UNCHANGED dismissCalled

\* The parent re-renders and passes a new options object with the same content.
OptionsChange ==
    /\ Apply(Commit([World EXCEPT !.newOptions = TRUE]), "optionsChange", <<>>)
    /\ UNCHANGED dismissCalled

\* A new provider instance with the same props over the same storage and page
\* after a reload: the window of the new page has no listeners.
Mount ==
    /\ Apply(Mounted(FirstRender(options, persistenceKey, storageType,
                                 localStorage, sessionStorage, missing), FALSE), "mount", <<>>)
    /\ dismissCalled' = FALSE

MountWithChildStart ==
    /\ Apply(Mounted(FirstRender(options, persistenceKey, storageType,
                                 localStorage, sessionStorage, missing), TRUE),
             "mountWithChildStart", <<>>)
    /\ dismissCalled' = FALSE

Next ==
    \/ StartGuide
    \/ StopGuide
    \/ ClearSteps
    \/ DontShowAnymore
    \/ CancelDontShowAnymore
    \/ RestartGuide
    \/ AddStep
    \/ RemoveStep
    \/ NextStep
    \/ PrevStep
    \/ GoToStep
    \/ DomChange
    \/ Resize
    \/ OptionsChange
    \/ Mount
    \/ MountWithChildStart

Spec == Init /\ [][Next]_vars

\* ------------------------------------------------------------------ option changes
\* The parent passes an options object whose allowKeyboardNavigation differs
\* from the last one's.  (Every handleKeyDown that the cleanup leaves on the
\* window stays for the life of the page; the option is switched off only
\* while at most MaxLeaked are registered.)
SetKeyboardNavigation ==
    \E keyboard \in BOOLEAN :
        /\ keyboard # options.allowKeyboardNavigation
        /\ keyboard \/ keydownListeners <= MaxLeaked
        /\ Apply(Commit([World EXCEPT !.options = Options(options.steps, keyboard,
                                                          options.callbacks),
                                      !.newOptions = TRUE]),
                 "setKeyboardNavigation", <<keyboard>>)
        /\ UNCHANGED dismissCalled

\* The parent passes an options object with other callback functions.
SetCallbacks ==
    \E callbacks \in CallbackSets :
        /\ callbacks # options.callbacks
        /\ Apply(Commit([World EXCEPT !.options = Options(options.steps,
                                                          options.allowKeyboardNavigation,
                                                          callbacks),
                                      !.newOptions = TRUE]),
                 "setCallbacks", <<callbacks>>)
        /\ UNCHANGED dismissCalled

\* the browser calls the n handleKeyDown listeners registered on window, one
\* after the other
RECURSIVE DispatchKeyDown(_, _, _)
DispatchKeyDown(w, key, n) ==
    IF n = 0 THEN w ELSE DispatchKeyDown(handleKeyDown(w, key), key, n - 1)

\* The user presses a key.
KeyDown ==
    \E key \in KeyboardKeys :
        /\ Apply(Commit(DispatchKeyDown(World, key, keydownListeners)), "keyDown", <<key>>)
        /\ UNCHANGED dismissCalled

NextListeners ==
    \/ StartGuide
    \/ StopGuide
    \/ ClearSteps
    \/ DontShowAnymore
    \/ CancelDontShowAnymore
    \/ NextStep
    \/ PrevStep
    \/ GoToStep
    \/ SetKeyboardNavigation
    \/ SetCallbacks
    \/ KeyDown

SpecListeners == Init /\ [][NextListeners]_vars

\* ------------------------------------------------------------------ prop changes
\* The parent re-renders the provider with another persistenceKey (README:
\* persistenceKey={`guide-${user.id}`}) or storageType.
SetProps ==
    \E key \in Keys, type \in StorageTypes :
        /\ key # persistenceKey \/ type # storageType
        /\ Apply(Commit([World EXCEPT !.persistenceKey = key, !.storageType = type,
                                      !.newProps = TRUE]),
                 "setProps", <<key, type>>)
        /\ UNCHANGED dismissCalled

NextProps ==
    \/ StartGuide
    \/ StopGuide
    \/ DontShowAnymore
    \/ CancelDontShowAnymore
    \/ RestartGuide
    \/ Mount
    \/ SetProps

SpecProps == Init /\ [][NextProps]_vars

\* ------------------------------------------------------------------ storage failures
\* The browser starts or stops throwing on storage access.
SetStorageFails ==
    /\ Apply([World EXCEPT !.storageFails = ~storageFails], "setStorageFails",
             <<~storageFails>>)
    /\ UNCHANGED dismissCalled

NextStorage ==
    \/ StartGuide
    \/ StopGuide
    \/ DontShowAnymore
    \/ CancelDontShowAnymore
    \/ RestartGuide
    \/ Mount
    \/ SetStorageFails

SpecStorage == Init /\ [][NextStorage]_vars

\* ------------------------------------------------------------------ handlers of the application
\* README, handleAddStep: addStep(step) and then startGuide() in one event
\* handler, both through the context value of the last committed render;
\* React renders once, after the handler has returned.
AddStepThenStart ==
    \E selector \in Selectors :
        /\ Len(steps) < MaxSteps
        /\ Apply(Commit(startGuide(addStep(World, selector))), "addStepThenStart",
                 <<selector>>)
        /\ UNCHANGED dismissCalled

\* dontShowAnymore() and then startGuide() in one event handler, both through
\* the context value of the last committed render: that startGuide closes
\* over the isDismissed of that render (deps [isDismissed]); a startGuide
\* kept by a timer callback from that render behaves the same way.
DismissThenStart ==
    /\ Apply(Commit(startGuide(dontShowAnymore(World))), "dismissThenStart", <<>>)
    /\ dismissCalled' = TRUE

NextHandlers ==
    \/ StartGuide
    \/ StopGuide
    \/ ClearSteps
    \/ RemoveStep
    \/ NextStep
    \/ AddStepThenStart
    \/ DismissThenStart

SpecHandlers == Init /\ [][NextHandlers]_vars

\* ------------------------------------------------------------------ the tooltip's buttons
\* GuideTooltip wired as in the README: step = currentStepData, onNext =
\* nextStep, onPrev = prevStep, onClose = stopGuide.  It renders nothing
\* unless isActive and step are set.
TooltipShown ==
    /\ isActive
    /\ currentStep >= 0 /\ currentStep < Len(steps)

\* the Next button, shown on every step but the last: onClick={onNext}
ClickNext ==
    /\ TooltipShown /\ currentStep # Len(steps) - 1
    /\ Apply(Commit(nextStep(World)), "clickNext", <<>>)
    /\ UNCHANGED dismissCalled

\* the Back button, shown when totalSteps > 1 and disabled on the first
\* step: onClick={onPrev}
ClickBack ==
    /\ TooltipShown /\ Len(steps) > 1 /\ currentStep # 0
    /\ Apply(Commit(prevStep(World)), "clickBack", <<>>)
    /\ UNCHANGED dismissCalled

\* the Finish button, shown on the last step in place of Next:
\* onClick={onClose}
ClickFinish ==
    /\ TooltipShown /\ currentStep = Len(steps) - 1
    /\ Apply(Commit(stopGuide(World)), "clickFinish", <<>>)
    /\ UNCHANGED dismissCalled

NextTooltip ==
    \/ StartGuide
    \/ AddStep
    \/ RemoveStep
    \/ ClickNext
    \/ ClickBack
    \/ ClickFinish

SpecTooltip == Init /\ [][NextTooltip]_vars

\* ------------------------------------------------------------------ the standalone hook
\* hooks/useGuide.tsx: the per-component state holder.  It has the cells
\* isActive, currentStep, highlightedElement and tooltipPosition and the refs
\* optionsRef and stepsRef, but no state for the list: `steps` is
\* options.steps as destructured by the last render, and every render is
\* followed by an effect without dependency list that assigns both refs from
\* the options.  stopGuide, nextStep, prevStep, goToStep and the main
\* effect's subscriptions read as in the provider.
useGuideStartGuide(w) ==
    IF Len(w.stepsRef) = 0 THEN w
    ELSE Fire([w EXCEPT !.currentStep = 0, !.isActive = TRUE], "onStart", <<>>)

\* stepsRef.current = stepsRef.current.filter(...): no state is set
useGuideRemoveStep(w, selector) == [w EXCEPT !.stepsRef = FilterOut(@, selector)]

\* a step whose element is missing is left in the list
useGuideUpdateHighlight(w) ==
    IF ~w.cl_isActive THEN w
    ELSE IF w.cl_currentStep + 1 > Len(w.stepsRef) THEN w
    ELSE LET selector == w.stepsRef[w.cl_currentStep + 1]
         IN IF selector \in w.missing THEN w
            ELSE [w EXCEPT !.highlightedElement = selector,
                           !.tooltipPosition =
                               calculateTooltipPosition(w.rects[selector],
                                                        w.placements[selector],
                                                        w.viewport)]

\* useEffect(() => { optionsRef.current = options; stepsRef.current =
\* options.steps; }) -- after every render
useGuideRefsEffect(w) == [w EXCEPT !.optionsRef = w.options, !.stepsRef = w.options.steps]

\* a render of the component that calls the hook
useGuideRender(w) == [Render(w) EXCEPT !.steps = w.options.steps]

useGuideMainEffect(w, depsChanged) ==
    IF depsChanged /\ w.cl_isActive
    THEN LET a == useGuideUpdateHighlight(w)
             b == [a EXCEPT !.observers = @ + 1, !.observerRef = TRUE,
                            !.resizeListeners = @ + 1]
         IN IF b.optionsRef.allowKeyboardNavigation
            THEN [b EXCEPT !.keydownListeners = @ + 1, !.keydownAttached = TRUE]
            ELSE b
    ELSE w

useGuideStepChangeEffect(w, depsChanged) ==
    IF depsChanged /\ w.cl_isActive THEN useGuideUpdateHighlight(w) ELSE w

\* the commit of a render: cleanup of the main effect, render, the effects
\* in declaration order, and the render caused by the geometry they set
useGuideCommit(w) ==
    LET depsChanged == w.isActive # w.cl_isActive \/ w.currentStep # w.cl_currentStep
        c  == MainEffectCleanup(w, depsChanged /\ w.cl_isActive)
        r  == useGuideRender(c)
        e1 == useGuideRefsEffect(r)
        e2 == useGuideMainEffect(e1, depsChanged)
        e3 == useGuideStepChangeEffect(e2, depsChanged)
    IN useGuideRefsEffect(useGuideRender(e3))

\* React renders after a handler only if it changed a state cell
useGuideSettle(w) ==
    IF \/ w.isActive # w.cl_isActive \/ w.currentStep # w.cl_currentStep
       \/ w.highlightedElement # highlightedElement
    THEN useGuideCommit(w)
    ELSE w

\* a component that has called useGuide(options) and committed its first render
InitHook ==
    \E lst \in InitialStepLists, keyboard \in BOOLEAN :
        /\ rects = [s \in Selectors |-> DefaultRect]
        /\ placements = DefaultPlacements
        /\ viewport = DefaultViewport
        /\ storageFails = FALSE
        /\ isActive = FALSE
        /\ currentStep = 0
        /\ highlightedElement = Null
        /\ tooltipPosition = [x |-> 0, y |-> 0]
        /\ isDismissed = FALSE
        /\ steps = lst
        /\ stepsRef = lst
        /\ options = Options(lst, keyboard, DefaultCallbacks)
        /\ optionsRef = Options(lst, keyboard, DefaultCallbacks)
        /\ persistenceKey = DefaultKey
        /\ storageType = "memory"
        /\ mountSteps = lst
        /\ mountKey = DefaultKey
        /\ mountStorageType = "memory"
        /\ localStorage = EmptyStorage
        /\ sessionStorage = EmptyStorage
        /\ missing = {}
        /\ observers = 0
        /\ observerRef = FALSE
        /\ resizeListeners = 0
        /\ keydownListeners = 0
        /\ keydownAttached = FALSE
        /\ fired = <<>>
        /\ firedFrom = {}
        /\ op = Event("mount", <<>>)
        /\ dismissCalled = FALSE

HookStartGuide ==
    /\ Apply(useGuideSettle(useGuideStartGuide(World)), "useGuide.startGuide", <<>>)
    /\ UNCHANGED dismissCalled

HookStopGuide ==
    /\ Apply(useGuideSettle(stopGuide(World)), "useGuide.stopGuide", <<>>)
    /\ UNCHANGED dismissCalled

HookRemoveStep ==
    \E selector \in Selectors :
        /\ Apply(useGuideSettle(useGuideRemoveStep(World, selector)),
                 "useGuide.removeStep", <<selector>>)
        /\ UNCHANGED dismissCalled

HookNextStep ==
    /\ Apply(useGuideSettle(nextStep(World)), "useGuide.nextStep", <<>>)
    /\ UNCHANGED dismissCalled

HookPrevStep ==
    /\ Apply(useGuideSettle(prevStep(World)), "useGuide.prevStep", <<>>)
    /\ UNCHANGED dismissCalled

HookGoToStep ==
    \E stepIndex \in -1..MaxSteps :
        /\ Apply(useGuideSettle(goToStep(World, stepIndex)), "useGuide.goToStep",
                 <<stepIndex>>)
        /\ UNCHANGED dismissCalled

\* a resize or scroll event while active: handleResize calls updateHighlight,
\* which reads stepsRef.current; a new DOMRect is a new state value, so a
\* render follows whenever the element was found
HookResize ==
    /\ isActive
    /\ LET w == useGuideUpdateHighlight(World)
       IN Apply(IF currentStep < Len(stepsRef) THEN useGuideCommit(w) ELSE w,
                "useGuide.resize", <<>>)
    /\ UNCHANGED dismissCalled

\* the component re-renders for a reason of its own (parent render, own
\* state), passing options of the same content
HookRerender ==
    /\ Apply(useGuideCommit(World), "useGuide.rerender", <<>>)
    /\ UNCHANGED dismissCalled

NextHook ==
    \/ HookStartGuide
    \/ HookStopGuide
    \/ HookRemoveStep
    \/ HookNextStep
    \/ HookPrevStep
    \/ HookGoToStep
    \/ HookResize
    \/ HookRerender

SpecHook == InitHook /\ [][NextHook]_vars

\* ------------------------------------------------------------------ placement
\* The provider on every layout of Rects x Placements x Viewports for the
\* step "a" (step "b" keeps the default rectangle and no placement).
InitPlacement ==
    \E r \in Rects, pl \in Placements, vp \in Viewports :
        InitOn(<<"a", "b">>, "localStorage",
               [s \in Selectors |-> IF s = "a" THEN r ELSE DefaultRect],
               [s \in Selectors |-> IF s = "a" THEN pl ELSE "auto"], vp)

NextPlacement ==
    \/ StartGuide
    \/ StopGuide
    \/ NextStep
    \/ PrevStep
    \/ Resize

SpecPlacement == InitPlacement /\ [][NextPlacement]_vars

\* ------------------------------------------------------------------ late notifications
\* The operations that set isActive to false.
Deactivations == {"stopGuide", "dontShowAnymore", "clearSteps", "nextStep"}

Deactivate(w, name) ==
    CASE name = "stopGuide" -> stopGuide(w)
      [] name = "dontShowAnymore" -> dontShowAnymore(w)
      [] name = "clearSteps" -> clearSteps(w)
      [] OTHER -> nextStep(w)

\* the page as a DOM change leaves it: the element of the selector appears
\* or disappears; Null stands for a notification without such a change
AfterDomChange(miss, selector) ==
    IF selector = Null THEN miss
    ELSE IF selector \in miss THEN miss \ {selector}
    ELSE miss \cup {selector}

\* A deactivating operation runs in an active tour, and a mutation, resize
\* or scroll notification is delivered before the cleanup of the main effect
\* has run.  Effects are passive: React runs their cleanup after the commit,
\* from a scheduled task unless the update came from a discrete event in
\* React 18, while MutationObserver callbacks are microtasks; the peer
\* dependency admits every React from 16.8.  The callback still subscribed
\* is the updateHighlight of the last committed render, and stepsRef has not
\* been synchronised yet.
NotifyBeforeTeardown ==
    \E name \in Deactivations, selector \in Selectors \cup {Null} :
        LET now == AfterDomChange(missing, selector)
            d == Deactivate([World EXCEPT !.missing = now], name)
        IN /\ isActive /\ ~d.isActive
           /\ Cardinality(now) <= MaxMissing
           /\ Apply(Commit(updateHighlight(d)), "notifyBeforeTeardown", <<name, selector>>)
           /\ dismissCalled' = (dismissCalled \/ name = "dontShowAnymore")

NextAsync ==
    \/ StartGuide
    \/ StopGuide
    \/ ClearSteps
    \/ DontShowAnymore
    \/ CancelDontShowAnymore
    \/ NextStep
    \/ DomChange
    \/ OptionsChange
    \/ NotifyBeforeTeardown

SpecAsync == Init /\ [][NextAsync]_vars

\* ------------------------------------------------------------------ properties
totalSteps == Len(steps)

Is(name) == op.name = name

OnlyFired(name, args) == fired = <<Callback(name, args)>>

\* the value stored under the provider's key in the medium of its storageType
Persisted == getStorageValue(World, storageType, persistenceKey)

IsMount(e) == e.name \in {"mount", "mountWithChildStart"}

\* C1: startGuide over a non-empty step list of a guide that is not dismissed
\* results in currentStep = 0 and isActive = true and invokes onStart exactly
\* once (and nothing else), whatever the previous state was.
C1_StartActivatesAtZero ==
    [][(Is("startGuide")' /\ totalSteps > 0 /\ ~isDismissed)
        => (currentStep' = 0 /\ isActive' /\ OnlyFired("onStart", <<>>)')]_vars

C1_Witness ==
    /\ Is("startGuide") /\ isActive /\ currentStep = 0
    /\ OnlyFired("onStart", <<>>) /\ totalSteps >= 2

\* C2: once dontShowAnymore has been called in a provider, the tour is
\* inactive and every later startGuide leaves it inactive and dismissed and
\* fires nothing, as long as neither restartGuide nor cancelDontShowAnymore
\* is called.
C2_StartIsNoOpAfterDismiss ==
    [][(dismissCalled /\ Is("startGuide")')
        => (~isActive /\ ~isActive' /\ isDismissed' /\ fired' = <<>>)]_vars

C2_Witness ==
    /\ Is("startGuide") /\ dismissCalled /\ totalSteps > 0
    /\ ~isActive /\ fired = <<>>

\* C3: after dontShowAnymore in one provider (and no restartGuide or
\* cancelDontShowAnymore since), a new provider instance with the same
\* persistenceKey and storageType has isDismissed = true after its initial
\* storage read when the medium is localStorage or sessionStorage, and
\* isDismissed = false when it is memory.
C3_DismissalPersists ==
    [][(dismissCalled /\ IsMount(op'))
        => (isDismissed' <=> storageType' \in {"localStorage", "sessionStorage"})]_vars

C3_Witness ==
    /\ Is("mount") /\ isDismissed /\ storageType = "sessionStorage"
    /\ Persisted = "true"

\* C4: a provider mounted while storage holds "true" under its key (its
\* isDismissed was set by the mount effect, not by a dontShowAnymore call of
\* its own, and not cleared by restartGuide / cancelDontShowAnymore) is never
\* active, whenever startGuide was called -- also from a child's mount effect.
C4_NeverActiveWhileDismissed == (isDismissed /\ ~dismissCalled) => ~isActive

\* C5: nextStep while active, from an index i < total - 1, yields i + 1, stays
\* active and fires onStepChange(i + 1) only; from i = total - 1 it
\* deactivates and fires onComplete only.
C5_NextStep ==
    [][(Is("nextStep")' /\ isActive /\ currentStep <= totalSteps - 1)
        => IF currentStep < totalSteps - 1
           THEN /\ currentStep' = currentStep + 1
                /\ isActive'
                /\ fired' = <<Callback("onStepChange", <<currentStep + 1>>)>>
           ELSE /\ ~isActive'
                /\ OnlyFired("onComplete", <<>>)']_vars

C5_Witness ==
    /\ Is("nextStep") /\ isActive /\ currentStep = 2
    /\ OnlyFired("onStepChange", <<2>>)

\* C6: prevStep at currentStep = 0 changes none of isActive, currentStep, the
\* step list and isDismissed and fires nothing; from Active(i), i > 0, it
\* yields Active(i - 1) and fires onStepChange(i - 1).
C6_PrevStep ==
    [][Is("prevStep")'
        => IF currentStep = 0
           THEN /\ UNCHANGED <<isActive, currentStep, steps, isDismissed>>
                /\ fired' = <<>>
           ELSE isActive => /\ isActive'
                            /\ currentStep' = currentStep - 1
                            /\ fired' = <<Callback("onStepChange", <<currentStep - 1>>)>>]_vars

C6_Witness ==
    /\ Is("prevStep") /\ isActive /\ currentStep = 0 /\ fired = <<>>
    /\ totalSteps >= 2

\* C7: goToStep(k) with k outside [0, totalSteps) leaves isActive, currentStep
\* and the step list unchanged and fires nothing; with k inside the range it
\* sets currentStep = k and fires onStepChange(k), in every state.
C7_GoToStep ==
    [][\A k \in -1..MaxSteps :
        (op' = Event("goToStep", <<k>>))
        => IF k >= 0 /\ k < totalSteps
           THEN currentStep' = k /\ OnlyFired("onStepChange", <<k>>)'
           ELSE /\ UNCHANGED <<isActive, currentStep, steps>>
                /\ fired' = <<>>]_vars

C7_Witness ==
    /\ op = Event("goToStep", <<totalSteps>>) /\ totalSteps > 0
    /\ isActive /\ currentStep < totalSteps /\ fired = <<>>

\* C8 as stated: goToStep(k), k valid, called while the tour is inactive makes
\* it Active(k).
C8_GoToStepActivates ==
    [][\A k \in 0..MaxSteps :
        (op' = Event("goToStep", <<k>>) /\ ~isActive /\ k < totalSteps)
        => (isActive' /\ currentStep' = k)]_vars

\* C8 amended: goToStep(k), k valid, called while the tour is inactive sets
\* currentStep = k and fires onStepChange(k) but leaves the tour inactive.
C8_GoToStepStaysInactive ==
    [][\A k \in 0..MaxSteps :
        (op' = Event("goToStep", <<k>>) /\ ~isActive /\ k < totalSteps)
        => (~isActive' /\ currentStep' = k
            /\ OnlyFired("onStepChange", <<k>>)')]_vars

C8_Witness ==
    /\ op = Event("goToStep", <<1>>) /\ ~isActive /\ currentStep = 1
    /\ OnlyFired("onStepChange", <<1>>)

\* C9 as stated: dontShowAnymore results in isDismissed = true and
\* isActive = false, stores "true" under persistenceKey, and invokes onDismiss
\* and onClose once each, onDismiss first.
C9_DismissThenClose ==
    [][Is("dontShowAnymore")'
        => /\ isDismissed' /\ ~isActive'
           /\ Persisted' = "true"
           /\ fired' = <<Callback("onDismiss", <<>>), Callback("onClose", <<>>)>>]_vars

\* C9 amended: dontShowAnymore results in isDismissed = true and
\* isActive = false, stores "true" under persistenceKey in localStorage or
\* sessionStorage as storageType says (with 'memory' nothing is stored), and
\* invokes onClose and onDismiss once each, onClose first.
C9_CloseThenDismiss ==
    [][Is("dontShowAnymore")'
        => /\ isDismissed' /\ ~isActive'
           /\ IF storageType = "memory"
              THEN UNCHANGED <<localStorage, sessionStorage>>
              ELSE Persisted' = "true"
           /\ fired' = <<Callback("onClose", <<>>), Callback("onDismiss", <<>>)>>]_vars

C9_Witness ==
    /\ Is("dontShowAnymore") /\ isDismissed /\ ~isActive
    /\ storageType = "localStorage" /\ localStorage[persistenceKey] = "true"
    /\ fired = <<Callback("onClose", <<>>), Callback("onDismiss", <<>>)>>

\* C10: in every state, isActive = true implies 0 <= currentStep < number of
\* steps; the tour is never active over an empty list.
C10_ActiveIndexInRange == isActive => (0 <= currentStep /\ currentStep < totalSteps)

\* the selector of the current step of an active tour is in the list and
\* matches no element of the page as the event leaves it
CurrentTargetMissing ==
    /\ isActive /\ currentStep < totalSteps
    /\ steps[currentStep + 1] \in missing'

\* C11: a recompute (mutation, resize or scroll notification) that runs while
\* active and finds no element for the current step's selector removes that
\* step from the list and leaves currentStep within [0, newTotal), also when
\* the dropped step was the last of the list (no index is asked for when the
\* list is left empty).
C11_MissingTargetDropKeepsIndexInRange ==
    [][((Is("domChange")' \/ Is("resize")') /\ CurrentTargetMissing)
        => /\ steps' = FilterOut(steps, steps[currentStep + 1])
           /\ (Len(steps') > 0 => (0 <= currentStep' /\ currentStep' < Len(steps')))]_vars

\* C12: no two entries of the step list share a selector.
C12_NoDuplicateSelectors ==
    \A i, j \in 1..Len(steps) : i # j => steps[i] # steps[j]

\* C13: addStep with a selector that is not in the current step list appends
\* it at the end of the list.
C13_AddStepAppendsAbsentSelector ==
    [][\A s \in Selectors :
        (op' = Event("addStep", <<s>>) /\ ~Contains(steps, s))
        => steps' = Append(steps, s)]_vars

\* C17: stopGuide from any state results in isActive = false and
\* highlightedElement = none and invokes onClose exactly once (and nothing
\* else).
C17_StopGuide ==
    [][Is("stopGuide")'
        => (~isActive' /\ highlightedElement' = Null /\ OnlyFired("onClose", <<>>)')]_vars

C17_Witness ==
    /\ Is("stopGuide") /\ ~isActive /\ highlightedElement = Null
    /\ OnlyFired("onClose", <<>>) /\ isDismissed

\* C15: the MutationObserver and the resize/scroll handlers are connected
\* only while the tour is active: exactly one observer and one handler pair
\* while active (the previous ones are torn down before new ones are
\* attached on every re-run of the effect), none while inactive.
C15_ObserverLifecycle ==
    /\ observers = (IF isActive THEN 1 ELSE 0)
    /\ resizeListeners = (IF isActive THEN 1 ELSE 0)
    /\ observerRef = isActive

\* the effect re-ran on a step change of a tour that was dismissed (and so
\* deactivated) and activated again before
C15_Witness ==
    /\ Is("nextStep") /\ isActive /\ currentStep = 1
    /\ observers = 1 /\ resizeListeners = 1
    /\ Persisted = "false"

\* C14: at most one keydown listener is attached at any time, and none
\* remains attached once the tour is inactive, for every sequence of
\* activations, deactivations, step changes and option changes.
C14_KeydownLifecycle ==
    /\ keydownListeners <= 1
    /\ ~isActive => keydownListeners = 0

\* C16: once stopGuide, dontShowAnymore, clearSteps or the completion of the
\* last step has set isActive to false, a mutation, resize or scroll
\* notification delivered to a callback that was subscribed while the tour
\* was active and is not yet torn down changes neither highlightedElement
\* nor tooltipPosition nor the step list: the provider settles as it does without the
\* notification.
C16_NoRecomputeAfterDeactivation ==
    [][\A name \in Deactivations, selector \in Selectors \cup {Null} :
        op' = Event("notifyBeforeTeardown", <<name, selector>>)
        => LET quiet == Commit(Deactivate(
                            [World EXCEPT !.missing = AfterDomChange(missing, selector)],
                            name))
           IN /\ highlightedElement' = quiet.highlightedElement
              /\ tooltipPosition' = quiet.tooltipPosition
              /\ steps' = quiet.steps]_vars

\* a later provider instance with the same props over the same storage
LaterInstance ==
    Mounted(FirstRender(options, persistenceKey, storageType,
                        localStorage, sessionStorage, missing), FALSE)

\* C18: restartGuide / cancelDontShowAnymore from the Dismissed state make
\* isDismissed false, persist "false" under the provider's persistenceKey so
\* that a later instance with the same key and medium has isDismissed =
\* false, make the tour active at index 0 and fire no lifecycle callback.
C18_RestartClearsDismissal ==
    [][((Is("restartGuide")' \/ Is("cancelDontShowAnymore")') /\ isDismissed)
        => /\ ~isDismissed' /\ isActive' /\ currentStep' = 0 /\ fired' = <<>>
           /\ ~LaterInstance'.isDismissed]_vars

\* the reference placement of the tooltip (300 x 150, margin 16), before
\* clamping
ReferenceAnchor(r, placement) ==
    CASE placement = "bottom" ->
           [x |-> r.left + r.width \div 2 - 150, y |-> r.top + r.height + 16]
      [] placement = "top" ->
           [x |-> r.left + r.width \div 2 - 150, y |-> r.top - 150 - 16]
      [] placement = "left" ->
           [x |-> r.left - 300 - 16, y |-> r.top + r.height \div 2 - 75]
      [] placement = "right" ->
           [x |-> r.left + r.width + 16, y |-> r.top + r.height \div 2 - 75]

\* C19: for every target rectangle, viewport and explicit placement the
\* calculator's anchor before clamping is the reference one ('bottom': x =
\* left + width/2 - 150, y = bottom + 16; 'top': same x, y = top - 150 - 16;
\* 'left': x = left - 300 - 16, 'right': x = right + 16, both with y = top +
\* height/2 - 75), and the published tooltipPosition is the calculator's
\* result for the highlighted element; for target {left 100, top 50, width
\* 100, height 20}, viewport 800 x 600 and placement 'bottom' the result is
\* x = 16, y = 86.
C19_PlacementAgreesWithReference ==
    /\ \A s \in Selectors :
          placements[s] # "auto"
          => placementAnchor(rects[s], placements[s], viewport)
             = ReferenceAnchor(rects[s], placements[s])
    /\ highlightedElement # Null
       => tooltipPosition = calculateTooltipPosition(rects[highlightedElement],
                                                     placements[highlightedElement],
                                                     viewport)
    /\ (rects["a"] = Rect(100, 50, 100, 20) /\ placements["a"] = "bottom"
        /\ viewport = [width |-> 800, height |-> 600])
       => calculateTooltipPosition(rects["a"], placements["a"], viewport)
          = [x |-> 16, y |-> 86]

\* the example of the claim, published for the first step of a started tour
C19_Witness ==
    /\ Is("startGuide") /\ isActive /\ highlightedElement = "a"
    /\ rects["a"] = Rect(100, 50, 100, 20) /\ placements["a"] = "bottom"
    /\ viewport = [width |-> 800, height |-> 600]
    /\ tooltipPosition = [x |-> 16, y |-> 86]

\* the bottom placement of r overflows the bottom edge of the viewport
BottomOverflows(r, vp) == r.top + r.height + 16 + 150 > vp.height

\* C20: for every target rectangle and viewport, placement 'auto' (or none)
\* returns the y of placement 'top' if the bottom placement would overflow
\* the viewport's bottom edge (target.bottom + 16 + 150 > viewportHeight) and
\* the y of placement 'bottom' otherwise, with the x of placement 'bottom'
\* in both cases; a step with placement 'auto' is published so.
C20_AutoPlacement ==
    /\ \A s \in Selectors :
          LET auto == calculateTooltipPosition(rects[s], "auto", viewport)
              top == calculateTooltipPosition(rects[s], "top", viewport)
              bottom == calculateTooltipPosition(rects[s], "bottom", viewport)
          IN /\ auto.x = bottom.x
             /\ auto.y = (IF BottomOverflows(rects[s], viewport) THEN top.y ELSE bottom.y)
    /\ (highlightedElement # Null /\ placements[highlightedElement] = "auto")
       => LET r == rects[highlightedElement]
          IN /\ tooltipPosition.x = calculateTooltipPosition(r, "bottom", viewport).x
             /\ tooltipPosition.y =
                  (IF BottomOverflows(r, viewport)
                   THEN calculateTooltipPosition(r, "top", viewport).y
                   ELSE calculateTooltipPosition(r, "bottom", viewport).y)

\* a step with placement 'auto' whose bottom placement overflows is
\* published above its target, where 'bottom' would not have put it
C20_Witness ==
    /\ isActive /\ highlightedElement = "a" /\ placements["a"] = "auto"
    /\ BottomOverflows(rects["a"], viewport)
    /\ tooltipPosition.y = calculateTooltipPosition(rects["a"], "top", viewport).y
    /\ tooltipPosition.y # calculateTooltipPosition(rects["a"], "bottom", viewport).y

\* C21 (as stated): for every target rectangle, placement and viewport size
\* the anchor returned by calculateTooltipPosition satisfies
\* 16 <= x <= viewportWidth - 300 - 16 and 16 <= y <= viewportHeight - 150 - 16.
C21_AnchorWithinMargins ==
    \A s \in Selectors, pl \in Placements :
        LET p == calculateTooltipPosition(rects[s], pl, viewport)
        IN /\ 16 <= p.x /\ p.x <= viewport.width - 300 - 16
           /\ 16 <= p.y /\ p.y <= viewport.height - 150 - 16

\* C21 (amended): the bounds hold on each axis on which the viewport has
\* room for the tooltip and both margins (width >= 332, height >= 182); on
\* an axis without that room the upper clamp decides (x = viewportWidth -
\* 316, y = viewportHeight - 166).  The clamped x does not depend on y nor
\* the clamped y on x.
C21_AnchorWithinMarginsWhereRoom ==
    \A s \in Selectors, pl \in Placements :
        LET a == placementAnchor(rects[s], pl, viewport)
            p == calculateTooltipPosition(rects[s], pl, viewport)
        IN /\ viewport.width >= 332 => (16 <= p.x /\ p.x <= viewport.width - 316)
           /\ viewport.width < 332 => p.x = viewport.width - 316
           /\ viewport.height >= 182 => (16 <= p.y /\ p.y <= viewport.height - 166)
           /\ viewport.height < 182 => p.y = viewport.height - 166
           /\ \A other \in {-1000, 0, 100, 1000} :
                /\ clampToViewport([a EXCEPT !.y = other], viewport).x = p.x
                /\ clampToViewport([a EXCEPT !.x = other], viewport).y = p.y

\* an anchor left of the margin was published clamped to it, on a viewport
\* with room
C21_Witness ==
    /\ isActive /\ highlightedElement = "a" /\ viewport.width >= 332
    /\ placementAnchor(rects["a"], placements["a"], viewport).x < 16
    /\ tooltipPosition.x = 16

\* the three operations that write the persisted flag
PersistingOps == {"dontShowAnymore", "cancelDontShowAnymore", "restartGuide"}

Persisting(w, name) ==
    CASE name = "dontShowAnymore" -> dontShowAnymore(w)
      [] name = "cancelDontShowAnymore" -> cancelDontShowAnymore(w)
      [] OTHER -> restartGuide(w)

\* C22: while storage access throws, a provider mounted over a stored "true"
\* has isDismissed = false, and dontShowAnymore / restartGuide /
\* cancelDontShowAnymore leave isDismissed, isActive and currentStep and fire
\* the callbacks exactly as they do from the same state with a working store;
\* the write is dropped.
C22_StorageFailuresAbsorbed ==
    [][storageFails =>
        /\ IsMount(op') => ~isDismissed'
        /\ \A name \in PersistingOps :
             op' = Event(name, <<>>)
             => LET working == Commit(Persisting([World EXCEPT !.storageFails = FALSE],
                                                 name))
                IN /\ isDismissed' = working.isDismissed
                   /\ isActive' = working.isActive
                   /\ currentStep' = working.currentStep
                   /\ fired' = working.fired
                   /\ localStorage' = localStorage
                   /\ sessionStorage' = sessionStorage]_vars

\* dontShowAnymore while storage throws: the tour is dismissed and closed in
\* memory, the stored "false" stays
C22_Witness ==
    /\ Is("dontShowAnymore") /\ storageFails /\ storageType = "sessionStorage"
    /\ isDismissed /\ ~isActive /\ Persisted = Null
    /\ sessionStorage[persistenceKey] = "false"
    /\ fired = <<Callback("onClose", <<>>), Callback("onDismiss", <<>>)>>

\* C23: every lifecycle callback an operation (or a key event) fires is
\* taken from the options object most recently supplied to the provider,
\* and a key event consults that object's allowKeyboardNavigation: when it
\* is false the key changes nothing and fires nothing, also if it was true
\* when the listener was attached.
C23_LatestOptions ==
    [][/\ fired' # <<>> => firedFrom' = {options.callbacks}
       /\ (Is("keyDown")' /\ ~options.allowKeyboardNavigation)
          => (fired' = <<>> /\ isActive' = isActive /\ currentStep' = currentStep)]_vars

\* a key pressed after the parent supplied the second options object fires
\* that object's callback
C23_Witness ==
    /\ Is("keyDown") /\ options.callbacks = "callbacks2"
    /\ firedFrom = {"callbacks2"} /\ fired = <<Callback("onStepChange", <<1>>)>>
    /\ isActive /\ currentStep = 1

\* the operation the README assigns to a key
KeyOperation(w, key) ==
    CASE key \in {"ArrowRight", " "} -> nextStep(w)
      [] key = "ArrowLeft" -> prevStep(w)
      [] key = "Escape" -> stopGuide(w)
      [] OTHER -> w

\* C24: whenever the tour is active and the latest options have
\* allowKeyboardNavigation = true, one ArrowRight or Space key event has
\* exactly the effect of one nextStep call, ArrowLeft of one prevStep call and
\* Escape of one stopGuide call; when the flag is false or the tour is
\* inactive, a key event changes no engine state and fires no callback.
C24_KeyboardNavigation ==
    [][\A key \in KeyboardKeys :
        op' = Event("keyDown", <<key>>)
        => LET expected == IF isActive /\ options.allowKeyboardNavigation
                           THEN Commit(KeyOperation(World, key))
                           ELSE World
           IN /\ isActive' = expected.isActive
              /\ currentStep' = expected.currentStep
              /\ highlightedElement' = expected.highlightedElement
              /\ steps' = expected.steps
              /\ isDismissed' = expected.isDismissed
              /\ fired' = expected.fired]_vars

\* C25: while active, a recompute that follows a recompute with no change of
\* the page in between (a resize or scroll notification right after a
\* mutation, resize or scroll notification) publishes the same
\* highlightedElement and tooltipPosition as the one before and changes no
\* other engine state.
C25_RecomputeIdempotent ==
    [][((Is("resize") \/ Is("domChange")) /\ isActive /\ Is("resize")')
        => /\ highlightedElement' = highlightedElement
           /\ tooltipPosition' = tooltipPosition
           /\ steps' = steps /\ currentStep' = currentStep
           /\ isActive' = isActive /\ isDismissed' = isDismissed]_vars

\* C26: addStep(step) followed directly by startGuide() in the same event
\* handler (of a guide that is not dismissed) leaves the guide active at
\* index 0 over a list that includes the new step, also when the list was
\* empty before.
C26_AddStepThenStart ==
    [][\A s \in Selectors :
        (op' = Event("addStepThenStart", <<s>>) /\ ~isDismissed)
        => /\ isActive' /\ currentStep' = 0
           /\ \E i \in 1..Len(steps') : steps'[i] = s]_vars

\* C27: re-rendering the provider with a new options object of the same
\* content leaves the step list as addStep / removeStep / clearSteps and the
\* missing-target drops have made it.
C27_StepListSurvivesOptionsChange ==
    [][Is("optionsChange")' => steps' = steps]_vars

\* C28: nextStep and prevStep invoked while the tour is inactive leave
\* isActive and currentStep unchanged and fire no callback.
C28_NavigationWhileInactive ==
    [][((Is("nextStep")' \/ Is("prevStep")') /\ ~isActive)
        => (isActive' = isActive /\ currentStep' = currentStep /\ fired' = <<>>)]_vars

\* k consecutive nextStep events; the callbacks they fire accumulate in fired
RECURSIVE NextStepTimes(_, _)
NextStepTimes(w, k) ==
    IF k = 0 THEN w ELSE NextStepTimes(Commit(nextStep(w)), k - 1)

\* onStepChange(i + 1), ..., onStepChange(n - 1), onComplete
FullRunCallbacks(i, n) ==
    [j \in 1..(n - i) |-> IF j < n - i THEN Callback("onStepChange", <<i + j>>)
                          ELSE Callback("onComplete", <<>>)]

\* C29: from Active(i) over a list of n steps whose targets all exist and
\* that is not modified, exactly n - i consecutive nextStep calls end the
\* tour: the tour is still active after fewer, inactive after n - i, and
\* these calls fire onStepChange(i + 1), ..., onStepChange(n - 1) in
\* ascending order, then onComplete once, and nothing else (no onClose).
C29_FullRunTerminates ==
    (/\ isActive /\ currentStep < totalSteps
     /\ \A j \in 1..totalSteps : steps[j] \notin missing)
    => LET n == totalSteps
           i == currentStep
           end == NextStepTimes(World, n - i)
       IN /\ \A k \in 0..(n - i - 1) : NextStepTimes(World, k).isActive
          /\ ~end.isActive
          /\ end.fired = FullRunCallbacks(i, n)
          /\ end.steps = steps

\* the last nextStep of a walk over three steps has completed the tour
C29_Witness ==
    /\ Is("nextStep") /\ ~isActive /\ totalSteps = 3 /\ currentStep = 2
    /\ OnlyFired("onComplete", <<>>) /\ missing = {}

\* C30: in every reachable state with isActive = false, highlightedElement
\* is none.
C30_NoGeometryWhileInactive == ~isActive => highlightedElement = Null


\* C31: startGuide invoked through a function reference obtained before
\* dontShowAnymore() (here: later in the same event handler as the
\* dismissal) is still a no-op after the dismissal: the final state has
\* isDismissed = true and isActive = false.
C31_StaleStartAfterDismiss ==
    [][Is("dismissThenStart")' => (isDismissed' /\ ~isActive')]_vars


\* the events whose commit recomputes the highlight; when the list shrinks in
\* one of them, updateHighlight has dropped a step whose target is missing
RecomputeEvents ==
    {"domChange", "resize", "startGuide", "nextStep", "prevStep", "goToStep",
     "cancelDontShowAnymore", "restartGuide"}

\* C32: after a missing-target drop while active, if another step (whose
\* target exists) now occupies index currentStep, the settled provider
\* publishes highlightedElement and tooltipPosition of that step: no further
\* DOM mutation, resize or scroll event is needed for the recompute.
C32_RecomputeAfterDrop ==
    [][(/\ op'.name \in RecomputeEvents
        /\ Len(steps') < Len(steps)
        /\ isActive' /\ currentStep' < Len(steps')
        /\ steps'[currentStep' + 1] \notin missing')
       => /\ highlightedElement' = steps'[currentStep' + 1]
          /\ tooltipPosition' =
                 calculateTooltipPosition(rects'[steps'[currentStep' + 1]],
                                          placements'[steps'[currentStep' + 1]],
                                          viewport')]_vars


\* the published currentStepData: steps[currentStep], undefined out of range
currentStepData ==
    IF currentStep >= 0 /\ currentStep < Len(steps) THEN steps[currentStep + 1] ELSE Null

\* C33: removeStep(selector) called while the tour is active with a selector
\* that is not the current step's leaves the published currentStepData
\* unchanged, whether the removed step lies before or after the current
\* index.
C33_RemoveOtherStepKeepsCurrent ==
    [][\A s \in Selectors :
        (op' = Event("removeStep", <<s>>) /\ isActive /\ currentStepData # s)
        => currentStepData' = currentStepData]_vars


\* the navigation operations of the frame conditions
NavigationOps == {"startGuide", "stopGuide", "nextStep", "prevStep", "goToStep"}

\* what addStep and removeStep must leave alone
ListOpsFrame ==
    op'.name \in {"addStep", "removeStep"}
    => /\ isActive' = isActive /\ currentStep' = currentStep
       /\ isDismissed' = isDismissed /\ fired' = <<>>

\* C34 as stated: startGuide, stopGuide, nextStep, prevStep and goToStep never
\* change the step list, isDismissed or the stored persistence value; addStep
\* and removeStep never change isActive, currentStep or isDismissed and fire
\* no callback.
C34_FrameConditions ==
    [][/\ op'.name \in NavigationOps
          => /\ steps' = steps /\ isDismissed' = isDismissed
             /\ localStorage' = localStorage /\ sessionStorage' = sessionStorage
       /\ ListOpsFrame]_vars

\* C34 amended: the navigation operations never change isDismissed or the
\* stored values, and leave the step list as it is except that the recompute
\* which follows them in an active tour drops the step at the resulting
\* index when its target is missing; addStep and removeStep never change
\* isActive, currentStep or isDismissed and fire no callback.
C34_FrameConditionsUpToDrop ==
    [][/\ op'.name \in NavigationOps
          => /\ isDismissed' = isDismissed
             /\ localStorage' = localStorage /\ sessionStorage' = sessionStorage
             /\ \/ steps' = steps
                \/ /\ isActive' /\ currentStep' < Len(steps)
                   /\ steps[currentStep' + 1] \in missing
                   /\ steps' = FilterOut(steps, steps[currentStep' + 1])
       /\ ListOpsFrame]_vars

\* startGuide over [a, b] with the target of a missing: the recompute of the
\* activation has dropped a, nothing is highlighted yet
C34_Witness ==
    /\ Is("startGuide") /\ isActive /\ steps = <<"b">> /\ missing = {"a"}
    /\ highlightedElement = Null /\ ~isDismissed


\* C35: restartGuide and cancelDontShowAnymore are equivalent: invoked from
\* the same state after the same history of provider props, both produce the
\* same isDismissed, isActive and currentStep and write the same value under
\* the same key in the same storage medium, also after the persistenceKey or
\* storageType prop has changed since the provider's first render.
C35_RestartEqualsCancel ==
    LET r == Commit(restartGuide(World))
        c == Commit(cancelDontShowAnymore(World))
    IN /\ r.isDismissed = c.isDismissed
       /\ r.isActive = c.isActive
       /\ r.currentStep = c.currentStep
       /\ r.localStorage = c.localStorage
       /\ r.sessionStorage = c.sessionStorage


\* C36: after the persistenceKey prop changes from a key whose stored value
\* is "true" (the provider being dismissed) to a key with no stored "true",
\* isDismissed becomes false, so that startGuide works again.
C36_DismissalFollowsKey ==
    [][(/\ Is("setProps")' /\ persistenceKey' # persistenceKey
        /\ isDismissed /\ Persisted = "true" /\ Persisted' # "true")
       => ~isDismissed']_vars


\* a startGuide() called in this state would change nothing and fire nothing
StartIsNoOp ==
    LET s == Commit(startGuide(World))
    IN /\ s.isActive = isActive /\ s.currentStep = currentStep
       /\ s.steps = steps /\ s.fired = <<>>

\* C37: clearSteps from any state empties the step list, sets isActive =
\* false, currentStep = 0 and highlightedElement = none and fires onClose
\* exactly once; afterwards startGuide is a no-op until addStep has added a
\* step: right after clearSteps, and still after one more event of the same
\* provider other than addStep.
C37_ClearSteps ==
    [][/\ Is("clearSteps")'
          => /\ totalSteps' = 0 /\ ~isActive' /\ currentStep' = 0
             /\ highlightedElement' = Null
             /\ fired' = <<Callback("onClose", <<>>)>>
             /\ StartIsNoOp'
       /\ (Is("clearSteps") /\ op'.name \notin {"addStep", "mount", "mountWithChildStart"})
          => StartIsNoOp']_vars


\* how often the last event called onComplete
OnCompleteCalls == Cardinality({i \in DOMAIN fired : fired[i].cb = "onComplete"})

\* C38: with GuideTooltip wired as in the README, a user who walks a tour of
\* n >= 1 steps with the tooltip's buttons and ends it on the last step with
\* the Finish button causes onComplete to be called exactly once: the Next
\* and Back clicks of the walk do not call it, the Finish click calls it once.
C38_FinishCompletes ==
    [][/\ (Is("clickNext")' \/ Is("clickBack")') => OnCompleteCalls' = 0
       /\ Is("clickFinish")' => OnCompleteCalls' = 1]_vars


\* C39: in the standalone useGuide hook, removeStep(selector) takes lasting
\* effect: after the event that follows it (whether or not that event
\* renders), the step is still absent from the list used by the nextStep /
\* goToStep bounds checks and by highlighting (stepsRef), and the published
\* totalSteps and currentStepData are derived from that same reduced list.
C39_HookRemoveStepLasts ==
    [][\A s \in Selectors :
        op = Event("useGuide.removeStep", <<s>>)
        => (~Contains(stepsRef', s) /\ steps' = stepsRef')]_vars

=============================================================================
